---- MODULE Spec2Model ----
(***************************************************************************)
(* State-machine model of the product importer's ingest core and webhook   *)
(* dispatcher (product/tasks.py, product/views.py, product/models.py).     *)
(*                                                                         *)
(* Text values are sequences of one-character strings so that str.strip()  *)
(* and str.upper() are computed, not assumed.  A CSV cell is a record      *)
(* [tag, s]: tag "text" (the cell holds s), "none" (the row is shorter     *)
(* than the header: csv.DictReader stores None) or "absent" (the header    *)
(* has no such column, so row.get(col, '') yields the default).            *)
(***************************************************************************)
EXTENDS Integers, Sequences, FiniteSets, TLC

VARIABLES
    file,             \* the source: sequence of CSV rows, same content on every open
    store,            \* Product table: natural key -> [name, description, is_active]
    jobs,             \* UploadHistory table: id -> row
    taskQueued,       \* a process_csv_file message was enqueued by upload_file
    pc,               \* position of the worker inside process_csv_file
    upload_id,        \* task argument
    file_extension,   \* task argument
    url_ok,           \* task argument s3_file_url contains the bucket host prefix
    upload_record,    \* the task's in-memory UploadHistory object
    total_count,      \* process_csv_streaming local
    batch_size,       \* process_csv_streaming local
    pos,              \* number of source rows consumed by the processing pass
    batch,            \* process_csv_streaming local: the rows collected for the next batch
    batch_num,        \* process_csv_streaming local
    total_processed,  \* process_csv_streaming local
    total_successful, \* process_csv_streaming local
    total_failed,     \* process_csv_streaming local
    err,              \* exception caught by the top-level handler
    now,              \* logical clock read by timezone.now()
    events,           \* progress events published to the job's channel, in order
    webhookQueue,     \* trigger_webhook messages enqueued, in order
    result,           \* return value of the last process_csv_file run
    deliveries,       \* number of times the task body was started
    faults,           \* number of environment failures injected so far
    counted,          \* history: indices of the rows counted by the counting pass
    last,             \* history: the last batch window, what was handed on, the outcome
    run,              \* history: what happened in the current run
    endpoints,        \* Webhook table: id -> row
    disp,             \* the frame of trigger_webhook: its position and locals
    hook_result,      \* return value of trigger_webhook
    tally,            \* history: per endpoint, the requests sent and what followed
    sized,            \* a call of get_batch_size: its argument and its return value
    api,              \* the frame of a webhook API view: its request, locals and reply
    trial,            \* a Product table, a batch, and the tables process_batch leaves
    sent              \* a call of send_progress_update: its arguments and what it did

vars == <<file, store, jobs, taskQueued, pc, upload_id, file_extension, url_ok,
          upload_record, total_count, batch_size, pos, batch, batch_num,
          total_processed, total_successful, total_failed, err, now, events,
          webhookQueue, result, deliveries, faults, counted, last, run,
          endpoints, disp, hook_result, tally, sized, api, trial, sent>>

(* the variables of trigger_webhook and of the call of get_batch_size *)
dispatcher == <<endpoints, disp, hook_result, tally>>

sizer == <<sized>>

(* the variables of webhook_create_api and webhook_update_api *)
registry == <<api>>

(* the variables of the calls of process_batch on a table of its own *)
upserts == <<trial>>

(* the variables of the call of send_progress_update on its own *)
publisher == <<sent>>

----------------------------------------------------------------------------
(* Bounds of the model *)

MaxRows == 2          \* longest freely enumerated source
MaxDeliveries == 2    \* deliveries of the task message (first delivery + redeliveries)
MaxFaults == 2        \* environment failures injected in one behaviour
BigExtra == 1         \* rows beyond one full batch in the two-batch source
MaxHooks == 2         \* rows of the Webhook table
MaxRetry == 2         \* largest retry budget an endpoint row starts with
SizeExtra == 50       \* totals beyond LargeLimit handed to get_batch_size
MaxCalls == 2         \* requests answered by the webhook API views
MaxBatch == 2         \* longest batch handed to process_batch on its own
MaxTotal == 40        \* largest total handed to send_progress_update on its own

(* Program constants *)

SmallLimit == 100     \* get_batch_size: below this the batch is the whole source
LargeLimit == 1000    \* get_batch_size: below this the batch size is MidBatch
MidBatch == 200
Divisor == 100        \* get_batch_size: target number of batches

JobId == 1            \* the id of the row upload_file creates
MissingId == 2        \* an id no row has

StatusOk == 200       \* trigger_webhook: the lowest status code that counts as delivered
StatusAbove == 300    \* trigger_webhook: the lowest status code above the delivered range
BackoffBase == 2      \* trigger_webhook: time.sleep(2 ** attempt)
DefaultRetry == 3     \* webhook_create_api: retry_count when the request gives none

----------------------------------------------------------------------------
(* Text *)

Nan == <<"n", "a", "n">>
NoneStr == <<"N", "o", "n", "e">>
Empty == <<>>

UpperChar(c) ==
    CASE c = "a" -> "A"
      [] c = "b" -> "B"
      [] c = "d" -> "D"
      [] c = "e" -> "E"
      [] c = "n" -> "N"
      [] c = "o" -> "O"
      [] c = "v" -> "V"
      [] c = "w" -> "W"
      [] OTHER -> c

Upper_AsGiven(s) == s

Upper(s) == [i \in 1..Len(s) |-> UpperChar(s[i])]

RECURSIVE LStrip(_)
LStrip(s) == IF s # <<>> /\ Head(s) = " " THEN LStrip(Tail(s)) ELSE s

RECURSIVE RStrip(_)
RStrip(s) == IF s # <<>> /\ s[Len(s)] = " " THEN RStrip(SubSeq(s, 1, Len(s) - 1)) ELSE s

Strip(s) == RStrip(LStrip(s))

(* Python values: a str or None *)
PyStr(s) == [none |-> FALSE, s |-> s]
PyNone == [none |-> TRUE, s |-> <<>>]

Get(cell, default) ==
    IF cell.tag = "absent" THEN PyStr(default)
    ELSE IF cell.tag = "none" THEN PyNone
    ELSE PyStr(cell.s)

Str(v) == IF v.none THEN NoneStr ELSE v.s

Truthy(v) == ~v.none /\ v.s # <<>>

Or(a, b) == IF Truthy(a) THEN a ELSE b

(* Cells and rows of the source *)
Text(s) == [tag |-> "text", s |-> s]
NoneCell == [tag |-> "none", s |-> <<>>]
AbsentCell == [tag |-> "absent", s |-> <<>>]

Row(k, n, d) == [sku |-> k, name |-> n, description |-> d]

----------------------------------------------------------------------------
(* process_csv_streaming: normalisation and validation of one row *)

(* The model's header has no 'desc' column: row.get('desc', '') is ''. *)
DescCell == AbsentCell

RowSku(row) == Upper(Strip(Str(Get(row.sku, Empty))))

RowName(row) == Strip(Str(Get(row.name, Empty)))

(* line 248: row.get('description', '').strip() raises AttributeError on None *)
CountRaises(row) == Get(row.description, Empty).none

(* line 271: str(row.get('desc', '') or row.get('description', '')).strip() *)
RowDescription(row) ==
    Strip(Str(Or(Get(DescCell, Empty), Get(row.description, Empty))))

(* lines 250 and 273: the row is skipped *)
Dropped(row) ==
    \/ RowSku(row) = Empty
    \/ RowName(row) = Empty
    \/ RowSku(row) = Nan
    \/ RowName(row) = Nan

(* lines 277-282 *)
Product(row) ==
    [sku |-> RowSku(row),
     name |-> RowName(row),
     description |-> IF RowDescription(row) # Nan THEN RowDescription(row) ELSE Empty,
     is_active |-> TRUE]


(* Python round(n / d) for naturals: round half to even *)
PyRoundDiv(n, d) ==
    LET q == n \div d
        r == n % d
    IN  IF 2 * r < d THEN q
        ELSE IF 2 * r > d THEN q + 1
        ELSE IF q % 2 = 0 THEN q ELSE q + 1

(* lines 393-413 *)
get_batch_size(total) ==
    IF total < SmallLimit THEN total
    ELSE IF total > SmallLimit /\ total < LargeLimit THEN MidBatch
    ELSE PyRoundDiv(total, Divisor)

(* lines 290-293 and 326-329: unique_batch[product.sku] = product.  The     *)
(* dict is a list of values in insertion order: assigning to a key it holds *)
(* replaces the value in place, assigning to a new key appends.             *)
DictSet(d, p) ==
    IF \E j \in 1..Len(d) : d[j].sku = p.sku
    THEN LET j == CHOOSE i \in 1..Len(d) : d[i].sku = p.sku
         IN  SubSeq(d, 1, j - 1) \o <<p>> \o SubSeq(d, j + 1, Len(d))
    ELSE Append(d, p)

(* the loop 'for product in batch' over products[lo..hi], run as the loop   *)
(* over the first half followed by the loop over the second half; the dict  *)
(* the first half leaves is bound as a value before the second half runs    *)
RECURSIVE DedupLoop(_, _, _, _)
DedupLoop(products, lo, hi, d) ==
    IF lo > hi THEN d
    ELSE IF lo = hi THEN DictSet(d, products[lo])
    ELSE LET mid == (lo + hi) \div 2
         IN  CHOOSE r \in {DedupLoop(products, mid + 1, hi, left) :
                             left \in {DedupLoop(products, lo, mid, d)}} : TRUE

DedupFirstWins(products) ==
    LET F == {i \in 1..Len(products) :
                 \A j \in 1..(i - 1) : products[j].sku # products[i].sku}
        Nth(n) == CHOOSE i \in F : Cardinality({j \in F : j <= i}) = n
    IN  [n \in 1..Cardinality(F) |-> products[Nth(n)]]

(* list(unique_batch.values()) *)
Dedup(products) == DedupLoop(products, 1, Len(products), <<>>)

(* lines 374-380: bulk_create(update_conflicts, unique_fields=['sku'],      *)
(* update_fields=['name', 'description', 'is_active']): a row per key, the  *)
(* listed fields overwritten on conflict.                                   *)
Fields(p) == [name |-> p.name, description |-> p.description, is_active |-> p.is_active]

Keys(products) == {products[i].sku : i \in 1..Len(products)}

LastWithKey(products, k) ==
    products[CHOOSE i \in 1..Len(products) :
               products[i].sku = k /\ \A j \in (i + 1)..Len(products) : products[j].sku # k]

Upsert_InsertOnly(st, products) ==
    [k \in DOMAIN st \cup Keys(products) |->
        IF k \in DOMAIN st THEN st[k] ELSE Fields(LastWithKey(products, k))]

Upsert(st, products) ==
    [k \in DOMAIN st \cup Keys(products) |->
        IF k \in Keys(products) THEN Fields(LastWithKey(products, k)) ELSE st[k]]

(* lines 365-391: ok is the outcome of the transaction; an empty products      *)
(* leaves 'successful' unbound and the return raises UnboundLocalError.     *)
process_batch_NoRollback(products, st, ok) ==
    IF products = <<>>
    THEN [raised |-> TRUE, successful |-> 0, failed |-> 0, store |-> st]
    ELSE IF ok
    THEN [raised |-> FALSE, successful |-> Len(products), failed |-> 0,
          store |-> Upsert(st, products)]
    ELSE [raised |-> FALSE, successful |-> 0, failed |-> Len(products),
          store |-> Upsert(st, <<Head(products)>>)]

process_batch_Reraises(products, st, ok) ==
    IF products = <<>> \/ ~ok
    THEN [raised |-> TRUE, successful |-> 0, failed |-> 0, store |-> st]
    ELSE [raised |-> FALSE, successful |-> Len(products), failed |-> 0,
          store |-> Upsert(st, products)]

process_batch(products, st, ok) ==
    IF products = <<>>
    THEN [raised |-> TRUE, successful |-> 0, failed |-> 0, store |-> st]
    ELSE IF ok
    THEN [raised |-> FALSE, successful |-> Len(products), failed |-> 0,
          store |-> Upsert(st, products)]
    ELSE [raised |-> FALSE, successful |-> 0, failed |-> Len(products), store |-> st]

----------------------------------------------------------------------------
(* Sources and tables the model starts from *)

RowsWithDescription ==
    { Row(Text(<<"a">>), Text(<<"w">>), Text(<<"d">>)),
      Row(Text(<<"A">>), Text(<<"v">>), Text(<<>>)),
      Row(Text(<<" ", "b">>), Text(<<"w">>), Text(Nan)),
      Row(Text(<<>>), Text(<<"w">>), Text(<<"d">>)),
      Row(Text(Nan), Text(<<"w">>), Text(<<"d">>)),
      Row(Text(<<"a">>), Text(Nan), Text(<<"d">>)),
      Row(Text(<<"b">>), Text(<<" ">>), Text(<<"d">>)),
      Row(Text(<<"a">>), NoneCell, NoneCell) }

RowsWithoutDescription ==
    { Row(Text(<<"a">>), Text(<<"w">>), AbsentCell),
      Row(Text(<<"A">>), NoneCell, AbsentCell),
      Row(Text(<<" ">>), Text(<<"v">>), AbsentCell) }

SeqsUpTo(S, n) == UNION {[1..k -> S] : k \in 0..n}

SmallFiles == SeqsUpTo(RowsWithDescription, MaxRows) \cup SeqsUpTo(RowsWithoutDescription, MaxRows)

(* A source is either a list of rows or a long generated source of n valid  *)
(* rows over two keys with one invalid row at position 2.                   *)
Listed(rows) == [kind |-> "listed", rows |-> rows, n |-> Len(rows)]

Generated(n) == [kind |-> "generated", rows |-> <<>>, n |-> n + 1]

BigRow(i) ==
    IF i = 2 THEN Row(Text(<<>>), Text(<<"w">>), Text(<<"d">>))
    ELSE Row(Text(IF i % 2 = 1 THEN <<"a">> ELSE <<"b", " ">>),
             Text(IF i % 3 = 0 THEN <<"v">> ELSE <<"w">>),
             Text(<<"d">>))

FileLen(f) == f.n

FileRow(f, i) == IF f.kind = "listed" THEN f.rows[i] ELSE BigRow(i)

BigTotals == {MidBatch + BigExtra, 2 * MidBatch}

(* A source of four lines under the header sku,name: two spellings of one   *)
(* key, a line without a key, and a second key.                             *)
Widget == <<"W", "i", "d", "g", "e", "t">>

ExampleRows ==
    << Row(Text(<<"a", "1">>), Text(Widget), AbsentCell),
       Row(Text(<<"A", "1">>), Text(Widget \o <<" ", "v", "2">>), AbsentCell),
       Row(Text(<<>>), Text(<<"B", "a", "d">>), AbsentCell),
       Row(Text(<<"b", "2">>), Text(<<"G", "a", "d", "g", "e", "t">>), AbsentCell) >>

Files ==
    {Listed(r) : r \in SmallFiles} \cup {Generated(n) : n \in BigTotals}
        \cup {Listed(ExampleRows)}

EmptyStore == [k \in {} |-> 0]

OldProduct == [name |-> <<"o">>, description |-> <<"o">>, is_active |-> FALSE]

Stores == {EmptyStore, [k \in {<<"A">>} |-> OldProduct]}

(* models.py 56-65: the defaults of an UploadHistory row; completed_at 0 is *)
(* null.                                                                    *)
NoMessage == [kind |-> "none", failed |-> 0, total |-> 0, cause |-> "none"]
SynthMessage(f, t) == [kind |-> "synth", failed |-> f, total |-> t, cause |-> "none"]
ExcMessage(c) == [kind |-> "exc", failed |-> 0, total |-> 0, cause |-> c]
StartMessage == [kind |-> "start", failed |-> 0, total |-> 0, cause |-> "enqueue"]

NewJob ==
    [status |-> "pending", total_records |-> 0, processed_records |-> 0,
     successful_records |-> 0, failed_records |-> 0,
     error_message |-> NoMessage, completed_at |-> 0]

NoBatch ==
    [window |-> <<>>, handed |-> <<>>, ok |-> TRUE, successful |-> 0, failed |-> 0,
     dups |-> 0, before |-> EmptyStore, successful_before |-> 0,
     failed_before |-> 0, processed_before |-> 0, num |-> 0]

NoRun ==
    [store_failures |-> 0, other_faults |-> 0, rows |-> 0, pass_done |-> FALSE,
     finalized |-> "none", handler |-> FALSE, queue_before |-> 0,
     events_before |-> 0, publish_failures |-> 0]

NoResult == [status |-> "none", message |-> "none"]

(* models.py 87-93: the event types an endpoint row can be registered for,  *)
(* and views.py 388, tasks.py 180, 196, 226: the event types dispatched.    *)
EVENT_CHOICES ==
    {"product_created", "product_updated", "product_deleted",
     "bulk_upload_complete", "bulk_delete_complete"}

EndpointEvents == {"bulk_upload_complete", "bulk_delete_complete"}

DispatchedEvents == {"bulk_upload_complete", "bulk_upload_failed", "bulk_delete_complete"}

(* models.py 95-106: an endpoint row.  retry_count is an IntegerField that  *)
(* webhook_create_api stores as given, so it may be negative.               *)
(* last_triggered_at 0 and last_response_code 0 are null.                   *)
Budgets == (0 - 1)..MaxRetry

EndpointRows ==
    [event_type : EndpointEvents, is_active : BOOLEAN, retry_count : Budgets,
     last_triggered_at : {0}, last_response_code : {0}, last_response_time : {"null"}]

Tables == UNION {[1..k -> EndpointRows] : k \in 0..MaxHooks}

NoEndpoints == [i \in {} |-> 0]

(* requests.post: a response with a status code, a Timeout, or another      *)
(* RequestException                                                         *)
Response(code) == [kind |-> "response", code |-> code]

Timeout == [kind |-> "timeout", code |-> 0]

Transport == [kind |-> "transport", code |-> 0]

NoOutcome == [kind |-> "none", code |-> 0]

Codes == {StatusOk - 1, StatusOk, StatusAbove - 1, StatusAbove}

Outcomes == {Response(c) : c \in Codes} \cup {Timeout, Transport}

NullRow ==
    [event_type |-> "none", is_active |-> FALSE, retry_count |-> 0,
     last_triggered_at |-> 0, last_response_code |-> 0, last_response_time |-> "null"]

IdleFrame ==
    [pc |-> "idle", event_type |-> "none", webhooks |-> <<>>, k |-> 0,
     webhook |-> [id |-> 0, row |-> NullRow], attempt |-> 0,
     triggered_count |-> 0, failed_count |-> 0]

NoHookResult ==
    [status |-> "none", message |-> "none", triggered |-> 0, failed |-> 0, total |-> 0]

NoTally ==
    [requests |-> 0, slept |-> 0, last_sleep |-> 0, triggered |-> 0, failed |-> 0,
     ok_at |-> 0, last |-> NoOutcome, last_at |-> 0, done |-> FALSE]

NoSize == [total_count |-> 0, batch_size |-> 0, done |-> FALSE]

(* the values of trigger_webhook's and get_batch_size's variables while     *)
(* neither runs                                                             *)
DispatcherIdle(table) ==
    /\ endpoints = table
    /\ disp = IdleFrame
    /\ hook_result = NoHookResult
    /\ tally = [i \in DOMAIN table |-> NoTally]

SizerIdle == sized = NoSize

(* a webhook API view before any request *)
NoData ==
    [given |-> {}, event_type |-> "none", is_active |-> FALSE, retry_count |-> 0]

NoReply == [status |-> "none", code |-> 0, id |-> 0]

NoCall ==
    [pc |-> "idle", op |-> "none", data |-> NoData,
     webhook |-> [id |-> 0, row |-> NullRow], reply |-> NoReply, calls |-> 0]

RegistryIdle == api = NoCall

(* no call of process_batch on a table of its own *)
NoOutcomeOfBatch == [ok |-> FALSE, successful |-> 0, failed |-> 0, store |-> EmptyStore]

NoTrial ==
    [store |-> EmptyStore, products |-> <<>>, step |-> 0,
     once |-> NoOutcomeOfBatch, twice |-> NoOutcomeOfBatch]

UpsertsIdle == trial = NoTrial

(* no call of send_progress_update on its own *)
NoEvent ==
    [upload_id |-> 0, status |-> "none", total_records |-> 0, successful_records |-> 0,
     progress_percentage |-> 0]

NoSend ==
    [total_records |-> 0, successful_records |-> 0, layer |-> FALSE, done |-> FALSE,
     raised |-> "none", published |-> FALSE, event |-> NoEvent]

PublisherIdle == sent = NoSend

SomeEndpoints ==
    [i \in {1} |->
        [event_type |-> "bulk_upload_complete", is_active |-> TRUE, retry_count |-> 0,
         last_triggered_at |-> 0, last_response_code |-> 0, last_response_time |-> "null"]]

(* the coordinator before upload_file: source f, Product table s *)
CoordinatorInit(f, s) ==
    /\ file = f
    /\ store = s
    /\ jobs = [i \in {} |-> NewJob]
    /\ taskQueued = FALSE
    /\ pc = "idle"
    /\ upload_id = JobId
    /\ file_extension = ".csv"
    /\ url_ok = TRUE
    /\ upload_record = NewJob
    /\ total_count = 0
    /\ batch_size = 0
    /\ pos = 0
    /\ batch = <<>>
    /\ batch_num = 0
    /\ total_processed = 0
    /\ total_successful = 0
    /\ total_failed = 0
    /\ err = "none"
    /\ now = 0
    /\ events = <<>>
    /\ webhookQueue = <<>>
    /\ result = NoResult
    /\ deliveries = 0
    /\ faults = 0
    /\ counted = {}
    /\ last = NoBatch
    /\ run = NoRun

Init ==
    /\ \E f \in Files, s \in Stores : CoordinatorInit(f, s)
    /\ DispatcherIdle(SomeEndpoints)
    /\ SizerIdle
    /\ RegistryIdle
    /\ UpsertsIdle
    /\ PublisherIdle

locals == <<total_count, batch_size, pos, batch, batch_num, total_processed,
            total_successful, total_failed>>

args == <<upload_id, file_extension, url_ok>>

history == <<counted, last, run>>

(* the variables of process_csv_file and upload_file, the clock apart *)
coordinator == <<file, store, jobs, taskQueued, pc, args, upload_record, locals, err,
                 events, webhookQueue, result, deliveries, faults, history>>

(* An environment failure may be injected while the budget lasts. *)
Cost(ok) == IF ok THEN 0 ELSE 1

Fault(n) == faults + n <= MaxFaults /\ faults' = faults + n

----------------------------------------------------------------------------
(* views.py upload_file, lines 90-120 *)

UploadFile(enqueue_ok) ==
    /\ JobId \notin DOMAIN jobs
    /\ Fault(Cost(enqueue_ok))
    /\ IF enqueue_ok
       THEN /\ jobs' = [i \in {JobId} |-> NewJob]
            /\ taskQueued' = TRUE
       ELSE /\ jobs' = [i \in {JobId} |->
                          [NewJob EXCEPT !.status = "failed",
                                         !.error_message = StartMessage]]
            /\ taskQueued' = FALSE
    /\ UNCHANGED <<dispatcher, sizer, registry, upserts, publisher, file, store, pc, args, upload_record, locals, err, now, events,
                   webhookQueue, result, deliveries, history>>

----------------------------------------------------------------------------
(* tasks.py process_csv_file and process_csv_streaming *)

Save(rec) == jobs' = [jobs EXCEPT ![upload_id] = rec]

Raise(e) ==
    /\ err' = e
    /\ pc' = "handler"

(* lines 213-215: UploadHistory.objects.get raised DoesNotExist *)
NotFound_CreatesRow(id) ==
    /\ result' = [status |-> "error", message |-> "Upload record not found"]
    /\ pc' = "idle"
    /\ jobs' = [i \in DOMAIN jobs \cup {id} |->
                  IF i = id THEN [NewJob EXCEPT !.status = "failed"] ELSE jobs[i]]
    /\ UNCHANGED upload_record

NotFound(id) ==
    /\ result' = [status |-> "error", message |-> "Upload record not found"]
    /\ pc' = "idle"
    /\ UNCHANGED <<upload_record, jobs>>

(* lines 141-144 and 213-215: the task body starts; the arguments are those *)
(* of the message.  A delivery after the first is the broker handing the   *)
(* message out again, an environment failure like the others.               *)
Start(id, uok, ext) ==
    /\ pc = "idle"
    /\ taskQueued
    /\ deliveries < MaxDeliveries
    /\ deliveries' = deliveries + 1
    /\ Fault(Cost(deliveries = 0))
    /\ upload_id' = id
    /\ url_ok' = uok
    /\ file_extension' = ext
    /\ total_count' = 0
    /\ batch_size' = 0
    /\ pos' = 0
    /\ batch' = <<>>
    /\ batch_num' = 0
    /\ total_processed' = 0
    /\ total_successful' = 0
    /\ total_failed' = 0
    /\ err' = "none"
    /\ counted' = {}
    /\ last' = NoBatch
    /\ run' = [NoRun EXCEPT !.queue_before = Len(webhookQueue),
                            !.events_before = Len(events)]
    /\ IF id \in DOMAIN jobs
       THEN /\ upload_record' = [jobs[id] EXCEPT !.status = "processing"]
            /\ jobs' = [jobs EXCEPT ![id] = upload_record']
            /\ pc' = "resolve"
            /\ result' = NoResult
       ELSE NotFound(id)
    /\ UNCHANGED <<dispatcher, sizer, registry, upserts, publisher, file, store, taskQueued, now, events, webhookQueue>>

(* lines 146-164: the object key is cut out of the URL, then the extension  *)
(* is checked.                                                              *)
Resolve_AnyExtension ==
    /\ pc = "resolve"
    /\ IF ~url_ok THEN Raise("IndexError")
       ELSE pc' = "count" /\ err' = err
    /\ UNCHANGED <<dispatcher, sizer, registry, upserts, publisher, file, store, jobs, taskQueued, args, upload_record, locals, now,
                   events, webhookQueue, result, deliveries, faults, history>>

Resolve ==
    /\ pc = "resolve"
    /\ IF ~url_ok THEN Raise("IndexError")
       ELSE IF file_extension # ".csv" THEN Raise("ValueError")
       ELSE pc' = "count" /\ err' = err
    /\ UNCHANGED <<dispatcher, sizer, registry, upserts, publisher, file, store, jobs, taskQueued, args, upload_record, locals, now,
                   events, webhookQueue, result, deliveries, faults, history>>

(* lines 242-261: the counting pass and the batch size *)
CountingRaises(f) == \E i \in 1..FileLen(f) : CountRaises(FileRow(f, i))

CountedRows_EveryRow(f) == 1..FileLen(f)

CountedRows(f) == {i \in 1..FileLen(f) : ~Dropped(FileRow(f, i))}

FirstRaise(f) ==
    IF CountingRaises(f)
    THEN CHOOSE i \in 1..FileLen(f) :
            CountRaises(FileRow(f, i)) /\ \A j \in 1..(i - 1) : ~CountRaises(FileRow(f, j))
    ELSE FileLen(f) + 1

CountPass(open_ok) ==
    /\ pc = "count"
    /\ Fault(Cost(open_ok))
    /\ run' = [run EXCEPT !.other_faults = @ + Cost(open_ok)]
    /\ IF ~open_ok
       THEN /\ Raise("transport")
            /\ UNCHANGED <<total_count, batch_size, counted>>
       ELSE IF CountingRaises(file)
       THEN /\ Raise("AttributeError")
            /\ counted' = {i \in CountedRows(file) : i < FirstRaise(file)}
            /\ total_count' = Cardinality(counted')
            /\ UNCHANGED batch_size
       ELSE /\ counted' = CountedRows(file)
            /\ total_count' = Cardinality(counted')
            /\ batch_size' = get_batch_size(total_count')
            /\ pc' = "batch"
            /\ err' = err
    /\ UNCHANGED <<dispatcher, sizer, registry, upserts, publisher, file, store, jobs, taskQueued, args, upload_record, pos, batch, batch_num,
                   total_processed, total_successful, total_failed, now, events,
                   webhookQueue, result, deliveries, last>>

(* lines 18-38: the event send_progress_update builds *)
ProgressEvent_TotalTwice(id, status, total, successful) ==
    [upload_id |-> id, status |-> status, total_records |-> total,
     successful_records |-> total]

ProgressEvent(id, status, total, successful) ==
    [upload_id |-> id, status |-> status, total_records |-> total,
     successful_records |-> successful]

(* lines 295 and 331 *)
DuplicatesRemoved(w, handed) == Len(w) - Len(handed)

(* lines 301-303 and 337-339: the running counters after a batch *)
AddSuccessful(t, r) == t + r.successful

AddFailed_NoDuplicates(t, r, dups) == t + r.failed

AddFailed(t, r, dups) == t + r.failed + dups

AddProcessed_NoDuplicates(t, r, dups) == t + r.successful + r.failed

AddProcessed(t, r, dups) == t + r.successful + r.failed + dups

(* lines 286-319 and 323-350: the batch window w is de-duplicated, handed   *)
(* to process_batch, counted, and a progress event with the given status    *)
(* is published.                                                            *)
ApplyBatch(w, status, store_ok, publish_ok) ==
    LET handed == Dedup(w)
        dups == DuplicatesRemoved(w, handed)
        r == process_batch(handed, store, store_ok)
    IN  /\ Fault(Cost(store_ok) + Cost(publish_ok))
        /\ run' = [run EXCEPT
                     !.store_failures = @ + Cost(store_ok),
                     !.other_faults = @ + Cost(publish_ok),
                     !.publish_failures = @ + Cost(publish_ok),
                     !.rows = @ + Len(w)]
        /\ IF r.raised
           THEN /\ Raise("UnboundLocalError")
                /\ UNCHANGED <<store, batch_num, total_processed, total_successful,
                               total_failed, events, last>>
           ELSE /\ store' = r.store
                /\ batch_num' = batch_num + 1
                /\ total_successful' = AddSuccessful(total_successful, r)
                /\ total_failed' = AddFailed(total_failed, r, dups)
                /\ total_processed' = AddProcessed(total_processed, r, dups)
                /\ last' = [window |-> w, handed |-> handed, ok |-> store_ok,
                            successful |-> r.successful, failed |-> r.failed,
                            dups |-> dups, before |-> store,
                            successful_before |-> total_successful,
                            failed_before |-> total_failed,
                            processed_before |-> total_processed,
                            num |-> batch_num']
                /\ IF total_count = 0 THEN Raise("ZeroDivisionError") /\ events' = events
                   ELSE IF ~publish_ok THEN Raise("publish") /\ events' = events
                   ELSE /\ events' = Append(events,
                              ProgressEvent(upload_id, status, total_count, total_successful'))
                        /\ err' = err
                        /\ pc' = IF status = "completed" THEN "save" ELSE pc
        /\ UNCHANGED <<dispatcher, sizer, registry, upserts, publisher, file, jobs, taskQueued, args, upload_record, total_count,
                       batch_size, now, webhookQueue, result, deliveries, counted>>

(* lines 267-285: the next row is read; it is skipped, or it joins a batch  *)
(* that is not yet full.                                                    *)
ReadRow ==
    /\ pc = "batch"
    /\ pos < FileLen(file)
    /\ pos' = pos + 1
    /\ IF Dropped(FileRow(file, pos + 1))
       THEN batch' = batch
       ELSE /\ Len(batch) + 1 < batch_size
            /\ batch' = Append(batch, Product(FileRow(file, pos + 1)))
    /\ UNCHANGED <<dispatcher, sizer, registry, upserts, publisher, file, store, jobs, taskQueued, pc, args, upload_record, total_count,
                   batch_size, batch_num, total_processed, total_successful,
                   total_failed, err, now, events, webhookQueue, result, deliveries,
                   faults, history>>

(* lines 267-319: the next row is read and fills the batch *)
FullBatch(store_ok, publish_ok) ==
    /\ pc = "batch"
    /\ pos < FileLen(file)
    /\ ~Dropped(FileRow(file, pos + 1))
    /\ Len(batch) + 1 >= batch_size
    /\ pos' = pos + 1
    /\ batch' = <<>>
    /\ ApplyBatch(Append(batch, Product(FileRow(file, pos + 1))), upload_record.status,
                  store_ok, publish_ok)

(* lines 321-350: the rows left when the source ends *)
TrailingBatch(store_ok, publish_ok) ==
    /\ pc = "batch"
    /\ pos = FileLen(file)
    /\ batch # <<>>
    /\ UNCHANGED <<pos, batch>>
    /\ ApplyBatch(batch, "completed", store_ok, publish_ok)

(* lines 263-267: opening or reading the source fails.  The raise discards  *)
(* the rows collected so far, so it is injected where a batch starts.       *)
StreamError ==
    /\ pc = "batch"
    /\ batch = <<>>
    /\ Fault(1)
    /\ Raise("transport")
    /\ run' = [run EXCEPT !.other_faults = @ + 1]
    /\ UNCHANGED <<dispatcher, sizer, registry, upserts, publisher, file, store, jobs, taskQueued, args, upload_record, locals, now,
                   events, webhookQueue, result, deliveries, counted, last>>

(* lines 353-362: the source is exhausted; the counters are stored *)
SaveCounters ==
    /\ \/ pc = "save"
       \/ pc = "batch" /\ pos = FileLen(file) /\ batch = <<>>
    /\ upload_record' = [upload_record EXCEPT
                           !.processed_records = total_processed,
                           !.successful_records = total_successful,
                           !.failed_records = total_failed]
    /\ Save(upload_record')
    /\ run' = [run EXCEPT !.pass_done = TRUE]
    /\ pc' = "finalize"
    /\ UNCHANGED <<dispatcher, sizer, registry, upserts, publisher, file, store, taskQueued, args, locals, err, now, events,
                   webhookQueue, result, deliveries, faults, counted, last>>

(* lines 172-176 and 190-192: the terminal status finalization chooses *)
FinalStatus(failed) == IF failed > 0 THEN "failed" ELSE "completed"

TerminalEvent_AlwaysComplete(status) == "bulk_upload_complete"

TerminalEvent(status) ==
    IF status = "failed" THEN "bulk_upload_failed" ELSE "bulk_upload_complete"

(* lines 166-177 and 190-193: stats is what process_csv_streaming returned *)
Finalize ==
    /\ pc = "finalize"
    /\ now' = now + 1
    /\ upload_record' = [upload_record EXCEPT
                           !.completed_at = now',
                           !.total_records = total_processed,
                           !.successful_records = total_successful,
                           !.failed_records = total_failed,
                           !.status = FinalStatus(total_failed),
                           !.error_message =
                               IF total_failed > 0
                               THEN SynthMessage(total_failed, total_processed)
                               ELSE @]
    /\ Save(upload_record')
    /\ run' = [run EXCEPT !.finalized = upload_record'.status]
    /\ pc' = "enqueue"
    /\ UNCHANGED <<dispatcher, sizer, registry, upserts, publisher, file, store, taskQueued, args, locals, err, events, webhookQueue,
                   result, deliveries, faults, counted, last>>

(* lines 180-189 and 196-204: the payload of the terminal event *)
SummaryPayload(event) ==
    [event |-> event, upload_id |-> upload_id, has_counts |-> TRUE,
     total_records |-> total_processed, successful_records |-> total_successful,
     failed_records |-> total_failed]

(* lines 226-232 *)
ErrorPayload_Complete ==
    [event |-> "bulk_upload_complete", upload_id |-> upload_id, has_counts |-> FALSE,
     total_records |-> 0, successful_records |-> 0, failed_records |-> 0]

ErrorPayload ==
    [event |-> "bulk_upload_failed", upload_id |-> upload_id, has_counts |-> FALSE,
     total_records |-> 0, successful_records |-> 0, failed_records |-> 0]

(* lines 179-211: trigger_webhook.delay and the return *)
Enqueue(enqueue_ok) ==
    /\ pc = "enqueue"
    /\ Fault(Cost(enqueue_ok))
    /\ IF enqueue_ok
       THEN /\ webhookQueue' = Append(webhookQueue,
                                 SummaryPayload(TerminalEvent(upload_record.status)))
            /\ result' = [status |-> "success", message |-> "none"]
            /\ pc' = "idle"
            /\ err' = err
       ELSE /\ Raise("enqueue")
            /\ UNCHANGED <<webhookQueue, result>>
    /\ run' = [run EXCEPT !.other_faults = @ + Cost(enqueue_ok)]
    /\ UNCHANGED <<dispatcher, sizer, registry, upserts, publisher, file, store, jobs, taskQueued, args, upload_record, locals, now,
                   events, deliveries, counted, last>>

(* lines 217-223: the top-level handler reads the row again and marks it *)
Handler ==
    /\ pc = "handler"
    /\ now' = now + 1
    /\ upload_record' = [jobs[upload_id] EXCEPT
                           !.status = "failed",
                           !.error_message = ExcMessage(err),
                           !.completed_at = now']
    /\ Save(upload_record')
    /\ run' = [run EXCEPT !.handler = TRUE]
    /\ pc' = "handler_enqueue"
    /\ UNCHANGED <<dispatcher, sizer, registry, upserts, publisher, file, store, taskQueued, args, locals, err, events, webhookQueue,
                   result, deliveries, faults, counted, last>>

(* lines 225-234: when this trigger_webhook.delay raises too, the exception *)
(* leaves the task.                                                         *)
HandlerEnqueue(enqueue_ok) ==
    /\ pc = "handler_enqueue"
    /\ Fault(Cost(enqueue_ok))
    /\ IF enqueue_ok
       THEN /\ webhookQueue' = Append(webhookQueue, ErrorPayload)
            /\ result' = [status |-> "error", message |-> err]
       ELSE /\ webhookQueue' = webhookQueue
            /\ result' = [status |-> "raised", message |-> "enqueue"]
    /\ pc' = "idle"
    /\ run' = [run EXCEPT !.other_faults = @ + Cost(enqueue_ok)]
    /\ UNCHANGED <<dispatcher, sizer, registry, upserts, publisher, file, store, jobs, taskQueued, args, upload_record, locals, err, now,
                   events, deliveries, counted, last>>

----------------------------------------------------------------------------
(* tasks.py trigger_webhook *)

(* line 49: Webhook.objects.filter(event_type=event_type, is_active=True) *)
Matches_IgnoresActive(row, ev) == row.event_type = ev

Matches(row, ev) == row.event_type = ev /\ row.is_active

(* models.py 111: ordering = ['-created_at'], the newest row first; the     *)
(* loop holds each row as the object the query loaded.                      *)
Filter(table, ev) ==
    LET S == {i \in DOMAIN table : Matches(table[i], ev)}
        Nth(n) == CHOOSE i \in S : Cardinality({j \in S : j >= i}) = n
    IN  [n \in 1..Cardinality(S) |-> [id |-> Nth(n), row |-> table[Nth(n)]]]

(* line 86 *)
Is2xx(code) == StatusOk <= code /\ code < StatusAbove

Delivered(outcome) == outcome.kind = "response" /\ Is2xx(outcome.code)

(* history: the attempt was answered with a status code from 200 to 299 *)
Got2xx(outcome) ==
    outcome.kind = "response" /\ outcome.code \in StatusOk..(StatusAbove - 1)

(* lines 92, 105, 117: a further attempt follows a failed one while         *)
(* attempt < retry_count; line 89: a delivered one breaks the loop.         *)
Continues_After2xx(outcome, attempt, retry_count) == attempt < retry_count

Continues_OneFewer(outcome, attempt, retry_count) ==
    ~Delivered(outcome) /\ attempt + 1 < retry_count

Continues(outcome, attempt, retry_count) ==
    ~Delivered(outcome) /\ attempt < retry_count

(* lines 94, 106, 118: time.sleep(2 ** attempt) *)
Backoff_Constant(attempt) == 1

Backoff(attempt) == BackoffBase ^ attempt

(* lines 81-84, 100-103, 112-115: the statistics written after an attempt *)
Telemetry_KeepsCode(row, outcome, at) ==
    [row EXCEPT
       !.last_triggered_at = at,
       !.last_response_code = IF outcome.kind = "response" THEN outcome.code ELSE @,
       !.last_response_time = IF outcome.kind = "response" THEN "measured" ELSE "null"]

Telemetry(row, outcome, at) ==
    [row EXCEPT
       !.last_triggered_at = at,
       !.last_response_code = IF outcome.kind = "response" THEN outcome.code ELSE 0,
       !.last_response_time = IF outcome.kind = "response" THEN "measured" ELSE "null"]

(* lines 47-56: the lookup; no match returns at once *)
Dispatch(ev) ==
    /\ disp.pc = "idle"
    /\ LET webhooks == Filter(endpoints, ev)
       IN  IF webhooks = <<>>
           THEN /\ hook_result' = [NoHookResult EXCEPT
                                     !.status = "success",
                                     !.message = "No webhooks configured"]
                /\ disp' = [disp EXCEPT !.pc = "done", !.event_type = ev]
           ELSE /\ hook_result' = hook_result
                /\ disp' = [disp EXCEPT !.pc = "next", !.event_type = ev,
                                        !.webhooks = webhooks]
    /\ UNCHANGED <<coordinator, now, sizer, registry, upserts, publisher, endpoints, tally>>

(* lines 58-69: the loop takes the next endpoint; range(retry_count + 1) is *)
(* empty when retry_count is negative.                                      *)
NextWebhook ==
    /\ disp.pc = "next"
    /\ disp.k < Len(disp.webhooks)
    /\ LET w == disp.webhooks[disp.k + 1]
           some == w.row.retry_count + 1 > 0
       IN  /\ disp' = [disp EXCEPT !.k = @ + 1, !.webhook = w, !.attempt = 0,
                                   !.pc = IF some THEN "attempt" ELSE "next"]
           /\ tally' = [tally EXCEPT ![w.id].done = ~some]
    /\ UNCHANGED <<coordinator, now, sizer, registry, upserts, publisher, endpoints, hook_result>>

(* lines 69-120: one attempt: the request, the statistics saved, then the   *)
(* break, the sleep before the next attempt, or the failure counted.        *)
Attempt(outcome) ==
    /\ disp.pc = "attempt"
    /\ now' = now + 1
    /\ LET id == disp.webhook.id
           row == Telemetry(disp.webhook.row, outcome, now + 1)
           again == Continues(outcome, disp.attempt, row.retry_count)
           nap == IF again THEN Backoff(disp.attempt) ELSE 0
           ok == Delivered(outcome)
           t == tally[id]
       IN  /\ endpoints' = [endpoints EXCEPT ![id] = row]
           /\ disp' = [disp EXCEPT
                         !.webhook = [id |-> id, row |-> row],
                         !.attempt = IF again THEN @ + 1 ELSE @,
                         !.triggered_count = IF ok THEN @ + 1 ELSE @,
                         !.failed_count = IF ~ok /\ ~again THEN @ + 1 ELSE @,
                         !.pc = IF again THEN "attempt" ELSE "next"]
           /\ tally' = [tally EXCEPT ![id] =
                          [requests |-> t.requests + 1,
                           slept |-> t.slept + nap,
                           last_sleep |-> nap,
                           triggered |-> IF ok THEN t.triggered + 1 ELSE t.triggered,
                           failed |-> IF ~ok /\ ~again THEN t.failed + 1 ELSE t.failed,
                           ok_at |-> IF Got2xx(outcome) /\ t.ok_at = 0
                                     THEN t.requests + 1 ELSE t.ok_at,
                           last |-> outcome,
                           last_at |-> now + 1,
                           done |-> ~again]]
    /\ UNCHANGED <<coordinator, sizer, registry, upserts, publisher, hook_result>>

(* lines 122-128 *)
Summary ==
    /\ disp.pc = "next"
    /\ disp.k = Len(disp.webhooks)
    /\ hook_result' = [status |-> "success", message |-> "none",
                       triggered |-> disp.triggered_count,
                       failed |-> disp.failed_count,
                       total |-> Len(disp.webhooks)]
    /\ disp' = [disp EXCEPT !.pc = "done"]
    /\ UNCHANGED <<coordinator, now, sizer, registry, upserts, publisher, endpoints, tally>>

----------------------------------------------------------------------------
(* tasks.py line 256: the call of get_batch_size *)

SizeBatch ==
    /\ ~sized.done
    /\ sized' = [sized EXCEPT !.batch_size = get_batch_size(sized.total_count),
                              !.done = TRUE]
    /\ UNCHANGED <<coordinator, now, dispatcher, registry, upserts, publisher>>

----------------------------------------------------------------------------
(* views.py webhook_create_api and webhook_update_api *)

(* the JSON body of a request: the keys it gives and their values.  Event   *)
(* names carry no surrounding blanks, so strip() leaves them as they are;   *)
(* "url" given means a non-blank URL.                                       *)
Keywords == {"url", "event_type", "is_active", "retry_count"}

RequestEvents == {"bulk_upload_complete", "bulk_upload_failed"}

Requests ==
    {d \in [given : SUBSET Keywords, event_type : RequestEvents \cup {"none"},
            is_active : BOOLEAN, retry_count : Budgets] :
        /\ "event_type" \in d.given <=> d.event_type # "none"
        /\ "is_active" \notin d.given => d.is_active = NoData.is_active
        /\ "retry_count" \notin d.given => d.retry_count = NoData.retry_count}

Reply(status, code, id) == [status |-> status, code |-> code, id |-> id]

(* lines 533-539 and 588-594: the event type is one of Webhook.EVENT_CHOICES *)
ValidEvent(event_type) == event_type \in EVENT_CHOICES

(* lines 542-548: Webhook.objects.create with the defaults of data.get *)
CreatedRow(data) ==
    [event_type |-> data.event_type,
     is_active |-> IF "is_active" \in data.given THEN data.is_active ELSE TRUE,
     retry_count |-> IF "retry_count" \in data.given THEN data.retry_count
                     ELSE DefaultRetry,
     last_triggered_at |-> 0, last_response_code |-> 0, last_response_time |-> "null"]

(* lines 584-604: the fields the request gives replace those of the loaded row *)
UpdatedRow(row, data) ==
    [row EXCEPT
       !.event_type = IF "event_type" \in data.given THEN data.event_type ELSE @,
       !.is_active = IF "is_active" \in data.given THEN data.is_active ELSE @,
       !.retry_count = IF "retry_count" \in data.given THEN data.retry_count ELSE @]

Answer(op, data, reply) ==
    api' = [api EXCEPT !.pc = "idle", !.op = op, !.data = data, !.reply = reply,
                       !.calls = @ + 1]

(* lines 519-573 *)
webhook_create_api(data) ==
    /\ api.pc = "idle"
    /\ api.calls < MaxCalls
    /\ IF "url" \notin data.given \/ "event_type" \notin data.given
       THEN /\ Answer("create", data, Reply("error", 400, 0))
            /\ UNCHANGED <<endpoints, tally>>
       ELSE IF ~ValidEvent(data.event_type)
       THEN /\ Answer("create", data, Reply("error", 400, 0))
            /\ UNCHANGED <<endpoints, tally>>
       ELSE LET id == Cardinality(DOMAIN endpoints) + 1
            IN  /\ endpoints' = [i \in DOMAIN endpoints \cup {id} |->
                                   IF i = id THEN CreatedRow(data) ELSE endpoints[i]]
                /\ tally' = [i \in DOMAIN endpoints \cup {id} |->
                               IF i = id THEN NoTally ELSE tally[i]]
                /\ Answer("create", data, Reply("success", 201, id))
    /\ UNCHANGED <<coordinator, now, sizer, upserts, publisher, disp, hook_result>>

(* line 580: get_object_or_404; the Http404 of a missing row is caught by   *)
(* the view's except Exception and answered with status 500.                *)
webhook_update_api_Get(webhook_id) ==
    /\ api.pc = "idle"
    /\ api.calls < MaxCalls
    /\ IF webhook_id \in DOMAIN endpoints
       THEN api' = [api EXCEPT !.pc = "loaded", !.op = "update", !.data = NoData,
                               !.reply = NoReply,
                               !.webhook = [id |-> webhook_id,
                                            row |-> endpoints[webhook_id]]]
       ELSE Answer("update", NoData, Reply("error", 500, 0))
    /\ UNCHANGED <<coordinator, now, sizer, upserts, publisher, dispatcher>>

(* lines 581-619: the fields are set on the loaded object and the whole row *)
(* is saved, unless the event type is refused.                              *)
webhook_update_api_Save(data) ==
    /\ api.pc = "loaded"
    /\ IF "event_type" \in data.given /\ ~ValidEvent(data.event_type)
       THEN /\ Answer("update", data, Reply("error", 400, 0))
            /\ UNCHANGED endpoints
       ELSE /\ endpoints' = [endpoints EXCEPT
                               ![api.webhook.id] = UpdatedRow(api.webhook.row, data)]
            /\ Answer("update", data, Reply("success", 200, api.webhook.id))
    /\ UNCHANGED <<coordinator, now, sizer, upserts, publisher, disp, hook_result, tally>>

----------------------------------------------------------------------------
Next ==
    \/ \E ok \in BOOLEAN : UploadFile(ok)
    \/ \E id \in {JobId, MissingId}, uok \in BOOLEAN, ext \in {".csv", ".xlsx"} :
          Start(id, uok, ext)
    \/ Resolve
    \/ \E ok \in BOOLEAN : CountPass(ok)
    \/ ReadRow
    \/ \E sok \in BOOLEAN, pok \in BOOLEAN : FullBatch(sok, pok)
    \/ \E sok \in BOOLEAN, pok \in BOOLEAN : TrailingBatch(sok, pok)
    \/ StreamError
    \/ SaveCounters
    \/ Finalize
    \/ \E ok \in BOOLEAN : Enqueue(ok)
    \/ Handler
    \/ \E ok \in BOOLEAN : HandlerEnqueue(ok)

Spec == Init /\ [][Next]_vars

(* trigger_webhook run once on a Webhook table *)
InitDispatch ==
    /\ CoordinatorInit(Listed(<<>>), EmptyStore)
    /\ \E table \in Tables : DispatcherIdle(table)
    /\ SizerIdle
    /\ RegistryIdle
    /\ UpsertsIdle
    /\ PublisherIdle

NextDispatch ==
    \/ \E ev \in DispatchedEvents : Dispatch(ev)
    \/ NextWebhook
    \/ \E outcome \in Outcomes : Attempt(outcome)
    \/ Summary

SpecDispatch == InitDispatch /\ [][NextDispatch]_vars

(* the webhook API views and trigger_webhook on a table that starts empty *)
InitRegister ==
    /\ CoordinatorInit(Listed(<<>>), EmptyStore)
    /\ DispatcherIdle(NoEndpoints)
    /\ SizerIdle
    /\ RegistryIdle
    /\ UpsertsIdle
    /\ PublisherIdle

NextRegister ==
    \/ \E data \in Requests : webhook_create_api(data)
    \/ \E id \in 1..MaxHooks : webhook_update_api_Get(id)
    \/ \E data \in Requests : webhook_update_api_Save(data)
    \/ \E ev \in RequestEvents : Dispatch(ev)
    \/ NextWebhook
    \/ \E outcome \in Outcomes : Attempt(outcome)
    \/ Summary

SpecRegister == InitRegister /\ [][NextRegister]_vars

(* process_batch called twice with one de-duplicated batch *)
TrialProducts == {Product(r) : r \in {x \in RowsWithDescription : ~Dropped(x)}}

Deduplicated(products) ==
    \A i, j \in 1..Len(products) : products[i].sku = products[j].sku => i = j

TrialBatches ==
    {b \in UNION {[1..n -> TrialProducts] : n \in 1..MaxBatch} : Deduplicated(b)}

TrialStores ==
    {[k \in K |-> OldProduct] : K \in SUBSET {p.sku : p \in TrialProducts}}

Applied(r, ok) ==
    [ok |-> ok, successful |-> r.successful, failed |-> r.failed, store |-> r.store]

ApplyOnce(ok) ==
    /\ trial.step = 0
    /\ trial.products # <<>>
    /\ trial' = [trial EXCEPT
                   !.step = 1,
                   !.once = Applied(process_batch(trial.products, trial.store, ok), ok)]
    /\ UNCHANGED <<coordinator, now, dispatcher, sizer, registry, publisher>>

ApplyAgain(ok) ==
    /\ trial.step = 1
    /\ trial' = [trial EXCEPT
                   !.step = 2,
                   !.twice = Applied(process_batch(trial.products, trial.once.store, ok),
                                     ok)]
    /\ UNCHANGED <<coordinator, now, dispatcher, sizer, registry, publisher>>

InitUpsert ==
    /\ CoordinatorInit(Listed(<<>>), EmptyStore)
    /\ DispatcherIdle(NoEndpoints)
    /\ SizerIdle
    /\ RegistryIdle
    /\ PublisherIdle
    /\ \E st \in TrialStores, b \in TrialBatches :
          trial = [NoTrial EXCEPT !.store = st, !.products = b]

NextUpsert ==
    \/ \E ok \in BOOLEAN : ApplyOnce(ok)
    \/ \E ok \in BOOLEAN : ApplyAgain(ok)

SpecUpsert == InitUpsert /\ [][NextUpsert]_vars

(* lines 18-38: send_progress_update called on its own.  The percentage is  *)
(* round((successful_records / total_records) * 100) on floats: the nearest *)
(* integer, and at an exact half either neighbour, as the error of the      *)
(* float quotient decides.                                                  *)
Percentages(successful, total) ==
    LET q == (successful * 100) \div total
        r == (successful * 100) % total
    IN  IF 2 * r < total THEN {q}
        ELSE IF 2 * r > total THEN {q + 1}
        ELSE {q, q + 1}

(* layer: get_channel_layer() returned a channel layer *)
send_progress_update(layer) ==
    /\ ~sent.done
    /\ IF ~layer
       THEN sent' = [sent EXCEPT !.done = TRUE, !.layer = layer]
       ELSE IF sent.total_records = 0
       THEN sent' = [sent EXCEPT !.done = TRUE, !.layer = layer,
                                 !.raised = "ZeroDivisionError"]
       ELSE \E p \in Percentages(sent.successful_records, sent.total_records) :
               sent' = [sent EXCEPT
                          !.done = TRUE, !.layer = layer, !.published = TRUE,
                          !.event = [upload_id |-> JobId, status |-> "processing",
                                     total_records |-> sent.total_records,
                                     successful_records |-> sent.successful_records,
                                     progress_percentage |-> p]]
    /\ UNCHANGED <<coordinator, now, dispatcher, sizer, registry, upserts>>

InitProgress ==
    /\ CoordinatorInit(Listed(<<>>), EmptyStore)
    /\ DispatcherIdle(NoEndpoints)
    /\ SizerIdle
    /\ RegistryIdle
    /\ UpsertsIdle
    /\ \E t \in 0..MaxTotal : \E s \in 0..t :
          sent = [NoSend EXCEPT !.total_records = t, !.successful_records = s]

NextProgress == \E layer \in BOOLEAN : send_progress_update(layer)

SpecProgress == InitProgress /\ [][NextProgress]_vars

(* get_batch_size called on a total *)
Totals == 0..(LargeLimit + SizeExtra) \cup {SmallLimit * Divisor}

InitSizing ==
    /\ CoordinatorInit(Listed(<<>>), EmptyStore)
    /\ DispatcherIdle(NoEndpoints)
    /\ RegistryIdle
    /\ UpsertsIdle
    /\ PublisherIdle
    /\ \E n \in Totals : sized = [NoSize EXCEPT !.total_count = n]

NextSizing == SizeBatch

SpecSizing == InitSizing /\ [][NextSizing]_vars

----------------------------------------------------------------------------
(* Properties *)

Terminal(j) == j.status \in {"completed", "failed"}

RunEnded == pc = "idle" /\ result # NoResult

AllowedTransitions ==
    { <<"pending", "processing">>,
      <<"processing", "completed">>,
      <<"processing", "failed">> }

(* C1: within one run of process_csv_file the status of a job only moves    *)
(* pending -> processing -> completed or pending -> processing -> failed,   *)
(* and the step that starts the run writes 'processing' to the row and      *)
(* touches neither the store nor the progress channel nor the webhook       *)
(* queue.                                                                   *)
C1_StatusPath ==
    [][ /\ \A id \in DOMAIN jobs :
              (deliveries' <= 1 /\ jobs'[id].status # jobs[id].status)
                  => <<jobs[id].status, jobs'[id].status>> \in AllowedTransitions
        /\ (pc = "idle" /\ pc' = "resolve")
              => /\ jobs'[upload_id'].status = "processing"
                 /\ store' = store
                 /\ events' = events
                 /\ webhookQueue' = webhookQueue ]_vars

Frozen(j, k) ==
    /\ k.status = j.status
    /\ k.total_records = j.total_records
    /\ k.processed_records = j.processed_records
    /\ k.successful_records = j.successful_records
    /\ k.failed_records = j.failed_records
    /\ k.completed_at = j.completed_at

(* C2: once a job row is completed or failed, no later step changes its     *)
(* status, its counters or its completion timestamp.                        *)
C2_TerminalFrozen ==
    [][ \A id \in DOMAIN jobs : Terminal(jobs[id]) => Frozen(jobs[id], jobs'[id]) ]_vars

(* C3: every job row persisted as completed or failed has                   *)
(* total_records = successful_records + failed_records.                     *)
C3_TotalIsSum ==
    \A id \in DOMAIN jobs :
        Terminal(jobs[id])
            => jobs[id].total_records
                 = jobs[id].successful_records + jobs[id].failed_records

(* C3 witness: a row marked failed by the top-level handler after a run     *)
(* that counted successes, failures and removed duplicates.                 *)
C3_Witness ==
    /\ JobId \in DOMAIN jobs
    /\ RunEnded
    /\ run.handler
    /\ jobs[JobId].status = "failed"
    /\ jobs[JobId].successful_records > 0
    /\ jobs[JobId].failed_records > 0
    /\ last.dups > 0

(* C4: when the processing pass finished without an unhandled error, the    *)
(* job's terminal status is failed exactly when the final failed counter is *)
(* above 0 and completed exactly when it is 0, and a failed job carries the *)
(* message that names the failure count.                                    *)
C4_StatusFollowsFailedCounter ==
    (RunEnded /\ run.pass_done)
        => LET j == jobs[upload_id]
           IN  /\ j.status = "failed" <=> j.failed_records > 0
               /\ j.status = "completed" <=> j.failed_records = 0
               /\ j.status = "failed"
                    => j.error_message = SynthMessage(j.failed_records, j.total_records)

(* C5: for every non-empty batch passed to process_batch the result is      *)
(* (size, 0) with every record of the batch in the store, or (0, size) with *)
(* the store as it was before the batch; successful + failed is the size.   *)
C5_AllOrNothing ==
    last.num > 0
        => /\ Len(last.handed) > 0
           /\ last.successful + last.failed = Len(last.handed)
           /\ \/ /\ last.successful = Len(last.handed)
                 /\ last.failed = 0
                 /\ \A i \in 1..Len(last.handed) :
                       /\ last.handed[i].sku \in DOMAIN store
                       /\ store[last.handed[i].sku] = Fields(last.handed[i])
              \/ /\ last.successful = 0
                 /\ last.failed = Len(last.handed)
                 /\ store = last.before

(* C5 witness: a batch of two records failed against a store that already   *)
(* held rows.                                                               *)
C5_Witness ==
    /\ last.num > 0
    /\ ~last.ok
    /\ Len(last.handed) >= 2
    /\ last.before # EmptyStore
    /\ \E i \in 1..Len(last.handed) : last.handed[i].sku \notin DOMAIN last.before

(* C6: a store failure on a batch does not abort the job: the failed        *)
(* counter grows by the size of that batch (and the duplicates removed from *)
(* its window), every valid row of the source still reaches a batch, and a  *)
(* run with no other failure ends failed through finalization, not through  *)
(* the top-level handler.                                                   *)
C6_StoreFailureDoesNotAbort ==
    /\ (last.num > 0 /\ ~last.ok)
          => /\ last.failed = Len(last.handed)
             /\ total_failed = last.failed_before + Len(last.handed) + last.dups
    /\ (RunEnded /\ run.store_failures > 0 /\ run.other_faults = 0)
          => /\ ~run.handler
             /\ run.finalized = "failed"
             /\ run.rows = total_count
             /\ jobs[upload_id].status = "failed"
             /\ jobs[upload_id].error_message.kind = "synth"
             /\ result.status = "success"

(* C6 witness: the first batch failed, the second batch was handed on and   *)
(* succeeded, and the run ended failed by finalization.                     *)
C6_Witness ==
    /\ RunEnded
    /\ run.store_failures = 1
    /\ run.other_faults = 0
    /\ last.num = 2
    /\ last.ok
    /\ run.finalized = "failed"
    /\ jobs[upload_id].status = "failed"

PositionsOf(w, k) == {i \in 1..Len(w) : w[i].sku = k}

LastPosition(w, k) ==
    LET P == PositionsOf(w, k) IN CHOOSE i \in P : \A j \in P : j <= i

WindowKeys(w) == {w[i].sku : i \in 1..Len(w)}

(* C7: every batch handed to the executor has pairwise distinct keys, and   *)
(* for each key of the window the record handed on is the one at the last   *)
(* position of that key in the window.                                      *)
C7_DedupLastWins ==
    last.num > 0
        => /\ \A i, j \in 1..Len(last.handed) :
                 i # j => last.handed[i].sku # last.handed[j].sku
           /\ WindowKeys(last.handed) = WindowKeys(last.window)
           /\ \A n \in 1..Len(last.handed) :
                 last.handed[n]
                   = last.window[LastPosition(last.window, last.handed[n].sku)]

(* C7 witness: a window in which a key occurs twice with different names.   *)
C7_Witness ==
    /\ last.num > 0
    /\ \E k \in WindowKeys(last.window) :
          \E i \in PositionsOf(last.window, k) :
              /\ i < LastPosition(last.window, k)
              /\ last.window[i].name # last.window[LastPosition(last.window, k)].name

RECURSIVE SumOver(_, _)
SumOver(S, f) ==
    IF S = {} THEN 0
    ELSE LET x == CHOOSE y \in S : TRUE IN f[x] + SumOver(S \ {x}, f)

RepeatedKeySum(w) ==
    SumOver(WindowKeys(w), [k \in WindowKeys(w) |-> Cardinality(PositionsOf(w, k)) - 1])

(* C8: the number of records removed from a window is the sum over its keys *)
(* K of count(K) - 1; it is added to the failed and the processed counter   *)
(* on top of the executor's result, and processed = successful + failed     *)
(* after every batch.                                                       *)
C8_DuplicatesCounted ==
    /\ total_processed = total_successful + total_failed
    /\ last.num > 0
          => /\ last.dups = RepeatedKeySum(last.window)
             /\ total_successful = last.successful_before + last.successful
             /\ total_failed = last.failed_before + last.failed + last.dups
             /\ total_processed
                  = last.processed_before + last.successful + last.failed + last.dups

(* C8 witness: a batch whose window lost duplicates and whose write failed. *)
C8_Witness ==
    /\ last.num > 0
    /\ last.dups > 0
    /\ last.failed > 0
    /\ total_processed > last.dups

(* The validation rule as the data model states it: key and name present,   *)
(* non-empty after trimming, and not the sentinel 'nan'.                    *)
Present(cell) == cell.tag = "text"

ValidRow(row) ==
    /\ Present(row.sku)
    /\ Present(row.name)
    /\ Strip(row.sku.s) # Empty
    /\ Strip(row.name.s) # Empty
    /\ Strip(row.sku.s) # Nan
    /\ Strip(row.name.s) # Nan

ValidRows(f) == {i \in 1..FileLen(f) : ValidRow(FileRow(f, i))}

(* C9: in both passes a row becomes a candidate record exactly when its key *)
(* and name are present, non-empty after trimming and not the sentinel.     *)
C9_CandidateIffValid ==
    /\ pc \in {"batch", "save", "finalize", "enqueue"} => counted = ValidRows(file)
    /\ run.pass_done => run.rows = Cardinality(ValidRows(file))

ValidKeysDistinct(f) ==
    \A i, j \in ValidRows(f) :
        i # j => Upper(Strip(FileRow(f, i).sku.s)) # Upper(Strip(FileRow(f, j).sku.s))

AllCellsGiven(f) ==
    \A i \in 1..FileLen(f) :
        /\ FileRow(f, i).sku.tag # "none"
        /\ FileRow(f, i).name.tag # "none"
        /\ FileRow(f, i).description.tag # "none"

(* C10: rows dropped by validation contribute to no counter: a run over a   *)
(* source of complete rows whose valid rows have distinct keys, with every  *)
(* batch write succeeding and no other failure, ends completed with         *)
(* failed = 0 and total = successful = the number of valid rows.            *)
C10_InvalidRowsUncounted ==
    ( /\ RunEnded
      /\ AllCellsGiven(file)
      /\ upload_id = JobId
      /\ url_ok
      /\ file_extension = ".csv"
      /\ run.store_failures = 0
      /\ run.other_faults = 0
      /\ ValidKeysDistinct(file) )
        => /\ jobs[upload_id].status = "completed"
           /\ jobs[upload_id].failed_records = 0
           /\ jobs[upload_id].total_records = Cardinality(ValidRows(file))
           /\ jobs[upload_id].successful_records = Cardinality(ValidRows(file))

(* The sizing rule as the specification states it. *)
StatedBatchSize(total) ==
    IF total < SmallLimit THEN total
    ELSE IF total < LargeLimit THEN MidBatch
    ELSE PyRoundDiv(total, Divisor)

(* C11: get_batch_size(total) is total below 100, 200 from 100 up to 999,   *)
(* and round(total / 100) from 1000 on, for every total of the range,       *)
(* the boundaries 99, 100, 101, 999 and 1000 included.                      *)
C11_BatchSizeTable ==
    sized.done => sized.batch_size = StatedBatchSize(sized.total_count)

(* C12: the batch size the counting pass leads to is at least 1 for every   *)
(* total it can produce, a source without valid rows included.              *)
C12_BatchSizePositive ==
    pc \in {"batch", "save"} => batch_size >= 1

(* What the tally says of the endpoints of the table. *)
Ids == DOMAIN tally

TallySum(field) == SumOver(Ids, [id \in Ids |-> tally[id][field]])

(* C13: an endpoint with retry budget n >= 0 whose attempts all fail (a     *)
(* status outside 200..299, a timeout or a transport error, in any mix)     *)
(* gets exactly n + 1 requests, adds 1 to the failed count and nothing to   *)
(* the triggered count.                                                     *)
C13_ExhaustedBudget ==
    /\ disp.failed_count = TallySum("failed")
    /\ disp.triggered_count = TallySum("triggered")
    /\ \A id \in Ids :
          ( /\ tally[id].done
            /\ endpoints[id].retry_count >= 0
            /\ tally[id].ok_at = 0 )
              => /\ tally[id].requests = endpoints[id].retry_count + 1
                 /\ tally[id].failed = 1
                 /\ tally[id].triggered = 0

(* C13 witness: an endpoint with a budget of at least one retry ran out of  *)
(* attempts, the last one a timeout.                                        *)
C13_Witness ==
    \E id \in Ids :
        /\ tally[id].done
        /\ endpoints[id].retry_count >= 1
        /\ tally[id].ok_at = 0
        /\ tally[id].requests > 1
        /\ tally[id].last = Timeout

(* C14: the first attempt answered with a 2xx status is the last attempt    *)
(* made to that endpoint: the endpoint is counted once as triggered, never  *)
(* as failed, no sleep follows, and a 2xx on the first attempt means        *)
(* exactly one attempt.                                                     *)
C14_StopsAtFirst2xx ==
    \A id \in Ids :
        tally[id].ok_at > 0
            => /\ tally[id].requests = tally[id].ok_at
               /\ tally[id].done
               /\ tally[id].triggered = 1
               /\ tally[id].failed = 0
               /\ tally[id].last_sleep = 0

(* C14 witness: a 2xx on the first attempt to an endpoint that had retries  *)
(* left, after which the dispatch returned.                                 *)
C14_Witness ==
    /\ disp.pc = "done"
    /\ \E id \in Ids :
          /\ tally[id].ok_at = 1
          /\ endpoints[id].retry_count >= 1

(* C15: after a failed attempt with zero-based index a that is not the last *)
(* of the budget the dispatcher sleeps 2^a seconds, whatever the kind of    *)
(* failure; it does not sleep after the last attempt; an endpoint with      *)
(* budget n that always fails has slept 2^n - 1 seconds in all.             *)
C15_ExponentialBackoff ==
    \A id \in Ids :
        tally[id].requests > 0
            => /\ tally[id].last_sleep
                    = IF tally[id].done THEN 0 ELSE 2 ^ (tally[id].requests - 1)
               /\ tally[id].slept
                    = IF tally[id].done THEN 2 ^ (tally[id].requests - 1) - 1
                      ELSE 2 ^ tally[id].requests - 1
               /\ (tally[id].done /\ tally[id].ok_at = 0)
                    => tally[id].slept = 2 ^ endpoints[id].retry_count - 1

(* C15 witness: an endpoint with two retries failed three times, the last   *)
(* time with a transport error, and slept 1 + 2 seconds.                    *)
C15_Witness ==
    \E id \in Ids :
        /\ tally[id].done
        /\ tally[id].ok_at = 0
        /\ endpoints[id].retry_count = 2
        /\ tally[id].slept = 3
        /\ tally[id].last = Transport

Matched == {id \in Ids : endpoints[id].event_type = disp.event_type /\ endpoints[id].is_active}

Requested == {id \in Ids : tally[id].requests > 0}

(* C16: a dispatch sends requests to exactly the endpoints registered for   *)
(* the dispatched event type and active; the others get no request and no   *)
(* telemetry write; when none matches no request is made and the result is  *)
(* 'No webhooks configured' with triggered = 0.                             *)
C16_ExactlyMatching ==
    disp.pc = "done"
        => /\ Requested = Matched
           /\ \A id \in Ids \ Matched : endpoints[id].last_triggered_at = 0
           /\ Matched = {}
                => /\ hook_result.status = "success"
                   /\ hook_result.message = "No webhooks configured"
                   /\ hook_result.triggered = 0

(* C17: a delivery failure on one endpoint, even after its whole budget,    *)
(* does not stop the dispatch: every other matched endpoint gets at least   *)
(* one request in the same dispatch.                                        *)
C17_FailureDoesNotStopOthers ==
    disp.pc = "done"
        => \A id \in Matched :
              tally[id].failed > 0
                  => \A other \in Matched \ {id} : tally[other].requests >= 1

StoredCode(outcome) == IF outcome.kind = "response" THEN outcome.code ELSE 0

(* C18: every attempt rewrites the endpoint row's last-triggered timestamp  *)
(* with the time of the attempt and sets its last response code to the      *)
(* status code received, or to null on a timeout or transport error; no     *)
(* other step touches the row, so when the retry loop ends the row          *)
(* describes the most recent attempt.                                       *)
C18_TelemetryOfLastAttempt ==
    [][ \A id \in Ids :
          IF tally'[id].requests # tally[id].requests
          THEN /\ now' > now
               /\ endpoints'[id].last_triggered_at = now'
               /\ endpoints'[id].last_triggered_at = tally'[id].last_at
               /\ endpoints'[id].last_response_code = StoredCode(tally'[id].last)
          ELSE endpoints'[id] = endpoints[id] ]_vars

(* C18 witness: an endpoint answered with a status code, then timed out on  *)
(* its last attempt, and its row holds a null code.                         *)
C18_Witness ==
    \E id \in Ids :
        /\ tally[id].done
        /\ tally[id].requests >= 2
        /\ tally[id].last = Timeout
        /\ endpoints[id].last_response_code = 0
        /\ endpoints[id].last_triggered_at = tally[id].last_at

HandlerRan == RunEnded /\ run.handler

RowMarkedFailed ==
    /\ jobs[upload_id].status = "failed"
    /\ jobs[upload_id].error_message = ExcMessage(err)
    /\ jobs[upload_id].completed_at = now
    /\ jobs[upload_id].completed_at > 0

FailedEventEnqueued ==
    /\ Len(webhookQueue) = run.queue_before + 1
    /\ webhookQueue[Len(webhookQueue)].event = "bulk_upload_failed"
    /\ webhookQueue[Len(webhookQueue)].upload_id = upload_id

(* C19 as stated: a run in which a step after the job row was found raised  *)
(* ends with the row persisted as failed, the error text in error_message,  *)
(* the completion timestamp set, and one bulk_upload_failed event enqueued. *)
C19_HandlerEnqueuesFailed ==
    HandlerRan => RowMarkedFailed /\ FailedEventEnqueued

(* C19 amended: such a run ends with the row persisted as failed, the error *)
(* text in error_message and the completion timestamp set; when the         *)
(* handler's trigger_webhook.delay is accepted the run enqueued exactly one *)
(* event, a bulk_upload_failed, and returns the error result; when it       *)
(* raises, the run enqueued none and the exception leaves the task.         *)
C19_HandlerMarksFailed ==
    HandlerRan
        => /\ RowMarkedFailed
           /\ IF result.status = "raised"
              THEN Len(webhookQueue) = run.queue_before
              ELSE /\ FailedEventEnqueued
                   /\ result = [status |-> "error", message |-> err]

(* C19 witness: the counting pass raised on a short row and the handler's   *)
(* event was accepted.                                                      *)
C19_Witness ==
    /\ HandlerRan
    /\ err = "AttributeError"
    /\ result.status = "error"
    /\ Len(webhookQueue) = run.queue_before + 1

(* C20: a start with an id that matches no job row returns the error result *)
(* and writes nothing: no job row, product row or endpoint row changes, no  *)
(* progress event is published and no webhook is enqueued.                  *)
C20_NotFoundChangesNothing ==
    [][ (pc = "idle" /\ deliveries' # deliveries /\ upload_id' \notin DOMAIN jobs)
          => /\ result' = [status |-> "error", message |-> "Upload record not found"]
             /\ pc' = "idle"
             /\ jobs' = jobs
             /\ store' = store
             /\ endpoints' = endpoints
             /\ events' = events
             /\ webhookQueue' = webhookQueue ]_vars

(* C20 witness: the task was started with the missing id while a job row    *)
(* and an endpoint row existed.                                             *)
C20_Witness ==
    /\ pc = "idle"
    /\ upload_id = MissingId
    /\ result = [status |-> "error", message |-> "Upload record not found"]
    /\ JobId \in DOMAIN jobs
    /\ DOMAIN endpoints # {}

----------------------------------------------------------------------------
(* The counters of a job row *)
Counters(j) ==
    <<j.total_records, j.processed_records, j.successful_records, j.failed_records>>

(* A step of a run on an existing job row started with an extension other   *)
(* than ".csv".                                                             *)
UnsupportedStep ==
    /\ upload_id' \in DOMAIN jobs'
    /\ file_extension' # ".csv"
    /\ pc # "idle" \/ pc' # "idle"

(* C21: a run started on an existing job with an extension other than       *)
(* ".csv" never opens the source, writes no product row, publishes no       *)
(* progress event and leaves the counters of the job row as they were (zero *)
(* on the first delivery); it goes from the extension check to the          *)
(* top-level handler, and ends with the row persisted as failed.            *)
C21_UnsupportedExtension ==
    [][UnsupportedStep
          => /\ pc' \in {"resolve", "handler", "handler_enqueue", "idle"}
             /\ counted' = {} /\ run'.rows = 0 /\ ~run'.pass_done
             /\ store' = store
             /\ events' = events
             /\ Counters(jobs'[upload_id']) = Counters(jobs[upload_id'])
             /\ deliveries' = 1 => Counters(jobs'[upload_id']) = <<0, 0, 0, 0>>
             /\ pc' = "idle" => /\ run'.handler
                                /\ jobs'[upload_id'].status = "failed"
                                /\ jobs'[upload_id'].completed_at > 0]_vars

(* C21 witness: a run with a well-formed URL and the extension ".xlsx"      *)
(* ended in the handler with the ValueError of the extension check.         *)
C21_Witness ==
    /\ RunEnded
    /\ upload_id = JobId
    /\ url_ok
    /\ file_extension = ".xlsx"
    /\ err = "ValueError"
    /\ jobs[JobId].status = "failed"
    /\ FileLen(file) > 0

(* A run on an existing job that ended, in which a publish raised and       *)
(* nothing else failed but store writes.                                    *)
PublishFailedOnly ==
    /\ RunEnded
    /\ upload_id \in DOMAIN jobs
    /\ run.publish_failures > 0
    /\ run.other_faults = run.publish_failures

(* C22: a publish of a progress event that raises does not change the       *)
(* outcome of the job: every counted row is still handed to a batch, the    *)
(* run reaches finalization without the handler, and the persisted status   *)
(* and counters are those finalization derives from the running totals.     *)
C22_PublishFailureSwallowed ==
    PublishFailedOnly
        => /\ ~run.handler
           /\ run.finalized # "none"
           /\ pos = FileLen(file)
           /\ jobs[upload_id].status = FinalStatus(total_failed)
           /\ Counters(jobs[upload_id]) =
                  <<total_processed, total_processed, total_successful, total_failed>>

(* The progress events published since the run started *)
RunEvents == SubSeq(events, run.events_before + 1, Len(events))

(* Every batch of the run so far was followed by one publish, which either  *)
(* delivered its event or raised; the event of the latest batch carries the *)
(* total of the counting pass and the successful counter after that batch.  *)
EventsFollowBatches ==
    (deliveries > 0 /\ upload_id \in DOMAIN jobs)
        => /\ Len(RunEvents) + run.publish_failures = batch_num
           /\ (batch_num > 0 /\ run.publish_failures = 0)
                 => /\ last.num = batch_num
                    /\ RunEvents[batch_num] =
                          [upload_id |-> upload_id,
                           status |-> RunEvents[batch_num].status,
                           total_records |-> Cardinality(counted),
                           successful_records |->
                               last.successful_before + last.successful]
                    /\ total_successful = last.successful_before + last.successful
                    /\ total_count = Cardinality(counted)

C24_FinalEventStatus ==
    (upload_id \in DOMAIN jobs /\ run.finalized # "none" /\ batch_num > 0)
        => /\ run.finalized = FinalStatus(total_failed)
           /\ RunEvents # <<>>
           /\ RunEvents[Len(RunEvents)].status = run.finalized

(* The event names the terminal status the job row carries. *)
EventNamesStatus(e, j) ==
    /\ Terminal(j)
    /\ e.event \in {"bulk_upload_complete", "bulk_upload_failed"}
    /\ e.event = "bulk_upload_complete" <=> j.status = "completed"
    /\ e.event = "bulk_upload_failed" <=> j.status = "failed"

(* The webhook events enqueued since the run started *)
RunQueue == SubSeq(webhookQueue, run.queue_before + 1, Len(webhookQueue))

(* C25 as stated: a run on an existing job that ended has enqueued exactly  *)
(* one terminal event, bulk_upload_complete exactly when the row is         *)
(* persisted as completed and bulk_upload_failed exactly when it is         *)
(* persisted as failed.                                                     *)
C25_ExactlyOneTerminalEvent ==
    (RunEnded /\ upload_id \in DOMAIN jobs)
        => /\ Len(RunQueue) = 1
           /\ EventNamesStatus(RunQueue[1], jobs[upload_id])

(* C25 amended: a run on an existing job enqueues at most one terminal      *)
(* event, and exactly one unless the trigger_webhook.delay of the top-level *)
(* handler raises, in which case it enqueues none.  The event is            *)
(* bulk_upload_complete exactly when the row is persisted as completed and  *)
(* bulk_upload_failed exactly when it is persisted as failed, and at the    *)
(* step that enqueues it the row already carries that status and a          *)
(* completion timestamp.                                                    *)
C25_OneTerminalEventUnlessRefused ==
    [][/\ webhookQueue' # webhookQueue
          => /\ RunQueue = <<>>
             /\ Len(webhookQueue') = Len(webhookQueue) + 1
             /\ SubSeq(webhookQueue', 1, Len(webhookQueue)) = webhookQueue
             /\ webhookQueue'[Len(webhookQueue')].upload_id = upload_id
             /\ EventNamesStatus(webhookQueue'[Len(webhookQueue')], jobs[upload_id])
             /\ jobs[upload_id].completed_at > 0
             /\ jobs' = jobs
       /\ (RunEnded' /\ upload_id' \in DOMAIN jobs')
          => IF result'.status = "raised"
             THEN RunQueue' = <<>>
             ELSE /\ Len(RunQueue') = 1
                  /\ EventNamesStatus(RunQueue'[1], jobs'[upload_id'])]_vars

(* C25 witness: a run finalized as completed, its bulk_upload_complete was  *)
(* accepted, and the row is persisted as completed with its timestamp.      *)
C25_Witness ==
    /\ RunEnded
    /\ upload_id = JobId
    /\ ~run.handler
    /\ run.finalized = "completed"
    /\ Len(RunQueue) = 1
    /\ RunQueue[1].event = "bulk_upload_complete"
    /\ jobs[JobId].status = "completed"
    /\ jobs[JobId].completed_at > 0
    /\ batch_num > 0

(* A step in which a view answers a well-formed request that registers an  *)
(* endpoint for event type e: a create with a URL, or the save of an update *)
(* of a loaded row.                                                         *)
Registers(e) ==
    /\ api'.calls = api.calls + 1
    /\ api'.data.event_type = e
    /\ \/ api'.op = "create" /\ "url" \in api'.data.given
       \/ api'.op = "update" /\ api.pc = "loaded"

(* C26: a request to webhook_create_api or webhook_update_api that          *)
(* subscribes an endpoint to an event type process_csv_file dispatches,     *)
(* bulk_upload_complete or bulk_upload_failed, is accepted and leaves a row *)
(* with that event type, so that the dispatch of the event can reach it.    *)
C26_DispatchedEventsRegistrable ==
    [][\A e \in {"bulk_upload_complete", "bulk_upload_failed"} :
          Registers(e)
             => /\ api'.reply.status = "success"
                /\ api'.reply.id \in DOMAIN endpoints'
                /\ endpoints'[api'.reply.id].event_type = e]_vars

(* No row of the table subscribes to bulk_upload_failed, and its dispatch   *)
(* finds no endpoint.                                                       *)
FailedEventUnreachable ==
    /\ \A i \in DOMAIN endpoints : endpoints[i].event_type # "bulk_upload_failed"
    /\ disp.event_type = "bulk_upload_failed" => disp.webhooks = <<>>

(* C27: while the processing pass runs, the job row is written after every  *)
(* batch: once batch k has been applied and rows remain to be read, the     *)
(* persisted processed, successful and failed counters equal the running    *)
(* totals after batch k.                                                    *)
C27_RowWrittenPerBatch ==
    (upload_id \in DOMAIN jobs /\ pc = "batch" /\ batch_num > 0 /\ pos < FileLen(file))
        => /\ jobs[upload_id].processed_records = total_processed
           /\ jobs[upload_id].successful_records = total_successful
           /\ jobs[upload_id].failed_records = total_failed

(* C28: a job row persisted as completed or failed carries its completion   *)
(* timestamp, whichever path wrote the status: finalization, the top-level  *)
(* handler, or upload_file when the task could not be started.              *)
C28_TerminalHasTimestamp ==
    \A id \in DOMAIN jobs : Terminal(jobs[id]) => jobs[id].completed_at > 0

(* The first delivery of the job on the four-line source ended; the store   *)
(* was empty before its batch and nothing failed.                           *)
ExampleRun ==
    /\ file = Listed(ExampleRows)
    /\ RunEnded
    /\ upload_id = JobId
    /\ url_ok
    /\ file_extension = ".csv"
    /\ deliveries = 1
    /\ faults = 0
    /\ last.before = EmptyStore

(* C29: the source rows (a1, Widget), (A1, Widget v2), ('', Bad),           *)
(* (b2, Gadget), run on an empty store without failures, give a             *)
(* counting-pass total of 3, batch size 3 and one batch; the store holds    *)
(* exactly the keys A1, named Widget v2, and B2; the job row has            *)
(* successful = 2, failed = 1 and status failed; and the run enqueues one   *)
(* bulk_upload_failed event whose payload has failed_records = 1.           *)
C29_EndToEndExample ==
    ExampleRun
        => /\ total_count = 3
           /\ batch_size = 3
           /\ batch_num = 1
           /\ DOMAIN store = {<<"A", "1">>, <<"B", "2">>}
           /\ store[<<"A", "1">>].name = <<"W", "i", "d", "g", "e", "t", " ", "v", "2">>
           /\ store[<<"B", "2">>].name = <<"G", "a", "d", "g", "e", "t">>
           /\ jobs[JobId].successful_records = 2
           /\ jobs[JobId].failed_records = 1
           /\ jobs[JobId].status = "failed"
           /\ Len(RunQueue) = 1
           /\ RunQueue[1].event = "bulk_upload_failed"
           /\ RunQueue[1].has_counts
           /\ RunQueue[1].failed_records = 1

(* C29 witness: that run ended with the job failed and two products stored. *)
C29_Witness ==
    /\ ExampleRun
    /\ jobs[JobId].status = "failed"
    /\ Cardinality(DOMAIN store) = 2
    /\ Len(RunEvents) = 1

(* The keys of the batch of the trial *)
TrialKeys == {trial.products[i].sku : i \in 1..Len(trial.products)}

(* C30: for every Product table and every de-duplicated batch, two          *)
(* successful calls of process_batch with the batch leave the table the     *)
(* first call left: the same keys, each once, with the same name,           *)
(* description and active flag.  After the first call the keys are those of *)
(* the table and of the batch; a key of the batch carries the batch's       *)
(* fields, whether it was there (overwritten) or not (inserted), and every  *)
(* other key keeps its row.                                                 *)
C30_UpsertIdempotent ==
    (trial.step = 2 /\ trial.once.ok /\ trial.twice.ok)
        => /\ trial.twice.store = trial.once.store
           /\ DOMAIN trial.once.store = DOMAIN trial.store \cup TrialKeys
           /\ \A i \in 1..Len(trial.products) :
                 trial.once.store[trial.products[i].sku] =
                    [name |-> trial.products[i].name,
                     description |-> trial.products[i].description,
                     is_active |-> trial.products[i].is_active]
           /\ \A k \in DOMAIN trial.store \ TrialKeys :
                 trial.once.store[k] = trial.store[k]
           /\ trial.once.successful = Len(trial.products)
           /\ trial.twice.successful = Len(trial.products)

(* C30 witness: a batch with a key the table held and a key it did not was  *)
(* applied twice, and the first call changed the table.                     *)
C30_Witness ==
    /\ trial.step = 2
    /\ trial.once.ok
    /\ trial.twice.ok
    /\ TrialKeys \cap DOMAIN trial.store # {}
    /\ TrialKeys \ DOMAIN trial.store # {}
    /\ DOMAIN trial.store \ TrialKeys # {}
    /\ trial.twice.store = trial.once.store
    /\ trial.once.store # trial.store

(* A line with fewer fields than the header: csv.DictReader gives the       *)
(* missing description the value None.                                      *)
ShortRow(row) == row.description.tag = "none"

(* C31: a line that cannot be decoded into all header fields does not abort *)
(* either pass: a run on a source with such a line, in which nothing else   *)
(* fails, counts and reads every row and does not end in the top-level      *)
(* handler.                                                                 *)
C31_ShortRowDoesNotAbort ==
    (/\ RunEnded
     /\ upload_id \in DOMAIN jobs
     /\ url_ok
     /\ file_extension = ".csv"
     /\ run.other_faults = 0
     /\ \E i \in 1..FileLen(file) : ShortRow(FileRow(file, i)))
        => /\ ~run.handler
           /\ run.pass_done
           /\ pos = FileLen(file)
           /\ total_count = Cardinality(CountedRows(file))

(* C32: send_progress_update, given a channel layer and any pair            *)
(* 0 <= successful <= total, does not raise and publishes an event whose    *)
(* percentage is successful / total x 100 rounded to a nearest integer when *)
(* total > 0, and 0 when total is 0.                                        *)
C32_PercentageDefined ==
    (sent.done /\ sent.layer)
        => /\ sent.raised = "none"
           /\ sent.published
           /\ LET p == sent.event.progress_percentage
                   d == p * sent.total_records - 100 * sent.successful_records
               IN  IF sent.total_records = 0 THEN p = 0
                   ELSE 2 * d <= sent.total_records /\ 0 - 2 * d <= sent.total_records

(* C33: a dispatch that found at least one matching endpoint returns a      *)
(* summary with triggered + failed = total: each matched endpoint is        *)
(* counted once, as triggered or as failed, whatever retry budget its row   *)
(* holds and whatever the outcomes of the attempts.                         *)
C33_SummaryAddsUp ==
    (disp.pc = "done" /\ disp.webhooks # <<>>)
        => /\ hook_result.total = Len(disp.webhooks)
           /\ hook_result.triggered + hook_result.failed = hook_result.total

(* The fields of an endpoint row an administrator sets *)
Settings(row) == <<row.event_type, row.is_active, row.retry_count>>

(* C34: a telemetry write of trigger_webhook changes only the endpoint's    *)
(* last-triggered timestamp, last response code and last response latency:  *)
(* the event type, active flag and retry budget the row holds when the      *)
(* write happens, as committed by webhook_update_api after the dispatcher   *)
(* read the row, are still in the row after the write.                      *)
C34_TelemetryKeepsSettings ==
    [][\A id \in DOMAIN endpoints :
          tally'[id].requests # tally[id].requests
             => Settings(endpoints'[id]) = Settings(endpoints[id])]_vars

(* C35: in a run that reached finalization the total of the counting pass  *)
(* is the final processed total: the total_records persisted equals the     *)
(* total every progress event of the run reported, and the sizes of the     *)
(* batch windows add up to the counting-pass total.                         *)
C35_CountedIsProcessed ==
    (upload_id \in DOMAIN jobs /\ run.finalized # "none")
        => /\ jobs[upload_id].total_records = total_count
           /\ run.rows = total_count
           /\ total_processed = total_count
           /\ \A n \in 1..Len(RunEvents) : RunEvents[n].total_records = total_count

(* C35 witness: a finalized run of two batches over a source that also      *)
(* holds an invalid row.                                                    *)
C35_Witness ==
    /\ upload_id \in DOMAIN jobs
    /\ run.finalized # "none"
    /\ batch_num = 2
    /\ Len(RunEvents) = 2
    /\ total_count < FileLen(file)
    /\ jobs[upload_id].total_records = total_count
    /\ run.store_failures > 0

(* The position of the last valid row of f at or before i that carries key  *)
(* k; 0 when there is none.                                                 *)
RECURSIVE LastValidFrom(_, _, _)
LastValidFrom(f, k, i) ==
    IF i = 0 THEN 0
    ELSE IF ValidRow(FileRow(f, i)) /\ Upper(Strip(FileRow(f, i).sku.s)) = k THEN i
    ELSE LastValidFrom(f, k, i - 1)

ValidKeys(f) == {Upper(Strip(FileRow(f, i).sku.s)) : i \in ValidRows(f)}

(* C36: when every batch write of a job succeeded and the processing pass   *)
(* ended, the store holds, for every key of a valid row of the source, one  *)
(* row whose name and description are those of the key's last valid         *)
(* occurrence in the whole file, also when the occurrences fall into        *)
(* different batches; every key the job wrote is uppercase.                 *)
C36_LastOccurrenceInFile ==
    (upload_id \in DOMAIN jobs /\ run.pass_done /\ run.store_failures = 0)
        => /\ \A k \in ValidKeys(file) :
                 LET row == FileRow(file, LastValidFrom(file, k, FileLen(file)))
                 IN  /\ k \in DOMAIN store
                     /\ store[k].name = Strip(row.name.s)
                     /\ store[k].description = Product(row).description
           /\ \A i \in counted :
                 LET k == RowSku(FileRow(file, i))
                 IN  k \in DOMAIN store /\ Upper(k) = k

====
